---- MODULE Spec2Model ----
(***************************************************************************)
(* SendSideBandwidthEstimation                                             *)
(* (webrtc/modules/bitrate_controller/send_side_bandwidth_estimation.cc)   *)
(* as a state machine: one variable per member of the estimator, one       *)
(* action per public method.  Methods are operators from an estimator      *)
(* record (all members) to the record after the call, so that a method     *)
(* that calls another (UpdateReceiverBlock -> UpdateEstimate ->            *)
(* UpdateMinHistory / CapBitrateToThresholds) is one atomic step.          *)
(*                                                                         *)
(* Numbers: bitrates are in bps and times in ms, as in the code.  The      *)
(* float thresholds low_loss_threshold_ / high_loss_threshold_ are kept    *)
(* in thousandths (0.02f is 20), and the double arithmetic of the          *)
(* increase (x 1.08 + 0.5), decrease (x (512 - loss) / 512.0) and timeout  *)
(* (x 0.8) rules is computed by the exact integer quotient it truncates    *)
(* to, split so that no intermediate product leaves 32 bits.               *)
(***************************************************************************)
EXTENDS Integers, Sequences, FiniteSets

\* ------------------------------------------------------------- constants
kBweIncreaseIntervalMs == 1000
kBweDecreaseIntervalMs == 300
kStartPhaseMs == 2000
kBweConverganceTimeMs == 20000
kLimitNumPackets == 20
kDefaultMaxBitrateBps == 1000000000
kLowBitrateLogPeriodMs == 10000
kRtcEventLogPeriodMs == 5000
kFeedbackIntervalMs == 1500
kFeedbackTimeoutIntervals == 3
kTimeoutIntervalMs == 1000
\* kDefaultLowLossThreshold = 0.02f, kDefaultHighLossThreshold = 0.1f, in
\* thousandths
kDefaultLowLossThreshold == 20
kDefaultHighLossThreshold == 100
kDefaultBitrateThresholdKbps == 0
\* congestion_controller::GetMinBitrateBps(): the system-wide floor of
\* min_bitrate_configured_ (bwe_defines.h, not part of the sources)
GetMinBitrateBps == 10000

\* kUmaRampupMetrics: the bitrate (kbps) of each ramp-up milestone
kUmaRampupMetrics == <<500, 1000, 2000>>
kNumUmaRampupMetrics == Len(kUmaRampupMetrics)

\* enum UmaState
kNoUpdate == "kNoUpdate"
kFirstDone == "kFirstDone"
kDone == "kDone"

\* ---------------------------------------------------------------- bounds
\* A run is at most MaxCalls calls of the estimator's methods.
MaxCalls == 5
\* The now_ms up to which a starved owner is followed.
MaxStarvedMs == 40000

\* ----------------------------------------------------------------- state
VARIABLES
    lost_packets_since_last_loss_update_Q8_,
    expected_packets_since_last_loss_update_,
    bitrate_,
    min_bitrate_configured_,
    max_bitrate_configured_,
    last_low_bitrate_log_ms_,
    has_decreased_since_last_fraction_loss_,
    last_feedback_ms_,
    last_packet_report_ms_,
    last_timeout_ms_,
    last_fraction_loss_,
    last_logged_fraction_loss_,
    last_round_trip_time_ms_,
    bwe_incoming_,
    delay_based_bitrate_bps_,
    time_last_decrease_ms_,
    first_report_time_ms_,
    initially_lost_packets_,
    bitrate_at_2_seconds_kbps_,
    uma_update_state_,
    rampup_uma_stats_updated_,
    last_rtc_event_log_ms_,
    in_timeout_experiment_,
    low_loss_threshold_,
    high_loss_threshold_,
    bitrate_threshold_bps_,
    min_bitrate_history_,
    \* what the last call sent to its sinks: the events given to
    \* event_log_->LogLossBasedBweUpdate and the histogram samples recorded
    event_log_,
    histograms,
    \* history: the fraction_loss of the blocks that the accumulators
    \* lost_packets_since_last_loss_update_Q8_ and
    \* expected_packets_since_last_loss_update_ hold
    fraction_loss_since_last_loss_update,
    \* history: the samples (first the time, second the bitrate) that
    \* UpdateMinHistory or the startup reset of UpdateEstimate put into
    \* min_bitrate_history_ and that were not older than
    \* kBweIncreaseIntervalMs at the last UpdateMinHistory; forgotten tells
    \* that min_bitrate_history_ was cleared or reset after the sample
    recorded_samples,
    \* the caller: the last now_ms it passed (now_ms never goes back), the
    \* method it called last, the number of calls it has made, and whether
    \* it has come to call nothing but UpdateEstimate
    now,
    last_op,
    calls,
    starved

vars == <<lost_packets_since_last_loss_update_Q8_,
          expected_packets_since_last_loss_update_, bitrate_,
          min_bitrate_configured_, max_bitrate_configured_,
          last_low_bitrate_log_ms_, has_decreased_since_last_fraction_loss_,
          last_feedback_ms_, last_packet_report_ms_, last_timeout_ms_,
          last_fraction_loss_, last_logged_fraction_loss_,
          last_round_trip_time_ms_, bwe_incoming_, delay_based_bitrate_bps_,
          time_last_decrease_ms_, first_report_time_ms_,
          initially_lost_packets_, bitrate_at_2_seconds_kbps_,
          uma_update_state_, rampup_uma_stats_updated_,
          last_rtc_event_log_ms_, in_timeout_experiment_, low_loss_threshold_,
          high_loss_threshold_, bitrate_threshold_bps_, min_bitrate_history_,
          event_log_, histograms, fraction_loss_since_last_loss_update,
          recorded_samples, now, last_op, calls, starved>>

\* The estimator as one record.
Self ==
    [lost_packets_since_last_loss_update_Q8_ |->
         lost_packets_since_last_loss_update_Q8_,
     expected_packets_since_last_loss_update_ |->
         expected_packets_since_last_loss_update_,
     bitrate_ |-> bitrate_,
     min_bitrate_configured_ |-> min_bitrate_configured_,
     max_bitrate_configured_ |-> max_bitrate_configured_,
     last_low_bitrate_log_ms_ |-> last_low_bitrate_log_ms_,
     has_decreased_since_last_fraction_loss_ |->
         has_decreased_since_last_fraction_loss_,
     last_feedback_ms_ |-> last_feedback_ms_,
     last_packet_report_ms_ |-> last_packet_report_ms_,
     last_timeout_ms_ |-> last_timeout_ms_,
     last_fraction_loss_ |-> last_fraction_loss_,
     last_logged_fraction_loss_ |-> last_logged_fraction_loss_,
     last_round_trip_time_ms_ |-> last_round_trip_time_ms_,
     bwe_incoming_ |-> bwe_incoming_,
     delay_based_bitrate_bps_ |-> delay_based_bitrate_bps_,
     time_last_decrease_ms_ |-> time_last_decrease_ms_,
     first_report_time_ms_ |-> first_report_time_ms_,
     initially_lost_packets_ |-> initially_lost_packets_,
     bitrate_at_2_seconds_kbps_ |-> bitrate_at_2_seconds_kbps_,
     uma_update_state_ |-> uma_update_state_,
     rampup_uma_stats_updated_ |-> rampup_uma_stats_updated_,
     last_rtc_event_log_ms_ |-> last_rtc_event_log_ms_,
     in_timeout_experiment_ |-> in_timeout_experiment_,
     low_loss_threshold_ |-> low_loss_threshold_,
     high_loss_threshold_ |-> high_loss_threshold_,
     bitrate_threshold_bps_ |-> bitrate_threshold_bps_,
     min_bitrate_history_ |-> min_bitrate_history_,
     event_log_ |-> <<>>,
     histograms |-> {},
     fraction_loss_since_last_loss_update |->
         fraction_loss_since_last_loss_update,
     recorded_samples |-> recorded_samples]

\* The estimator after a call that left it as the record s.
Commit(s) ==
    /\ lost_packets_since_last_loss_update_Q8_' =
           s.lost_packets_since_last_loss_update_Q8_
    /\ expected_packets_since_last_loss_update_' =
           s.expected_packets_since_last_loss_update_
    /\ bitrate_' = s.bitrate_
    /\ min_bitrate_configured_' = s.min_bitrate_configured_
    /\ max_bitrate_configured_' = s.max_bitrate_configured_
    /\ last_low_bitrate_log_ms_' = s.last_low_bitrate_log_ms_
    /\ has_decreased_since_last_fraction_loss_' =
           s.has_decreased_since_last_fraction_loss_
    /\ last_feedback_ms_' = s.last_feedback_ms_
    /\ last_packet_report_ms_' = s.last_packet_report_ms_
    /\ last_timeout_ms_' = s.last_timeout_ms_
    /\ last_fraction_loss_' = s.last_fraction_loss_
    /\ last_logged_fraction_loss_' = s.last_logged_fraction_loss_
    /\ last_round_trip_time_ms_' = s.last_round_trip_time_ms_
    /\ bwe_incoming_' = s.bwe_incoming_
    /\ delay_based_bitrate_bps_' = s.delay_based_bitrate_bps_
    /\ time_last_decrease_ms_' = s.time_last_decrease_ms_
    /\ first_report_time_ms_' = s.first_report_time_ms_
    /\ initially_lost_packets_' = s.initially_lost_packets_
    /\ bitrate_at_2_seconds_kbps_' = s.bitrate_at_2_seconds_kbps_
    /\ uma_update_state_' = s.uma_update_state_
    /\ rampup_uma_stats_updated_' = s.rampup_uma_stats_updated_
    /\ last_rtc_event_log_ms_' = s.last_rtc_event_log_ms_
    /\ in_timeout_experiment_' = s.in_timeout_experiment_
    /\ low_loss_threshold_' = s.low_loss_threshold_
    /\ high_loss_threshold_' = s.high_loss_threshold_
    /\ bitrate_threshold_bps_' = s.bitrate_threshold_bps_
    /\ min_bitrate_history_' = s.min_bitrate_history_
    /\ event_log_' = s.event_log_
    /\ histograms' = s.histograms
    /\ fraction_loss_since_last_loss_update' =
           s.fraction_loss_since_last_loss_update
    /\ recorded_samples' = s.recorded_samples

\* ------------------------------------------------------------ arithmetic
Max(a, b) == IF a >= b THEN a ELSE b

\* static_cast<uint32_t>(x * 1.08 + 0.5): (108 x + 50) \div 100
IncreaseBy8Percent(x) ==
    x + 8 * (x \div 100) + ((8 * (x % 100) + 50) \div 100)

\* static_cast<uint32_t>((x * static_cast<double>(512 - loss)) / 512.0)
DecreaseByLoss(x, loss) ==
    (x \div 512) * (512 - loss) + (((x % 512) * (512 - loss)) \div 512)

\* bitrate_ *= 0.8 on a uint32_t: (4 x) \div 5
TimeoutDecrease(x) == 4 * (x \div 5) + ((4 * (x % 5)) \div 5)

\* --------------------------------------------------------------- methods
\* SendSideBandwidthEstimation::SendSideBandwidthEstimation.  low, high
\* and threshold_kbps are what the WebRTC-BweLossExperiment field trial
\* gives (the defaults when it is off), timeout_experiment whether
\* WebRTC-FeedbackTimeout is enabled.
Constructor(low, high, threshold_kbps, timeout_experiment) ==
    [lost_packets_since_last_loss_update_Q8_ |-> 0,
     expected_packets_since_last_loss_update_ |-> 0,
     bitrate_ |-> 0,
     min_bitrate_configured_ |-> GetMinBitrateBps,
     max_bitrate_configured_ |-> kDefaultMaxBitrateBps,
     last_low_bitrate_log_ms_ |-> -1,
     has_decreased_since_last_fraction_loss_ |-> FALSE,
     last_feedback_ms_ |-> -1,
     last_packet_report_ms_ |-> -1,
     last_timeout_ms_ |-> -1,
     last_fraction_loss_ |-> 0,
     last_logged_fraction_loss_ |-> 0,
     last_round_trip_time_ms_ |-> 0,
     bwe_incoming_ |-> 0,
     delay_based_bitrate_bps_ |-> 0,
     time_last_decrease_ms_ |-> 0,
     first_report_time_ms_ |-> -1,
     initially_lost_packets_ |-> 0,
     bitrate_at_2_seconds_kbps_ |-> 0,
     uma_update_state_ |-> kNoUpdate,
     rampup_uma_stats_updated_ |-> [i \in 1..kNumUmaRampupMetrics |-> FALSE],
     last_rtc_event_log_ms_ |-> -1,
     in_timeout_experiment_ |-> timeout_experiment,
     low_loss_threshold_ |-> low,
     high_loss_threshold_ |-> high,
     bitrate_threshold_bps_ |-> 1000 * threshold_kbps,
     min_bitrate_history_ |-> <<>>,
     event_log_ |-> <<>>,
     histograms |-> {},
     fraction_loss_since_last_loss_update |-> {},
     recorded_samples |-> {}]

\* SendSideBandwidthEstimation::IsInStartPhase
IsInStartPhase(s, now_ms) ==
    \/ s.first_report_time_ms_ = -1
    \/ now_ms - s.first_report_time_ms_ < kStartPhaseMs

\* CapBitrateToThresholds with the floor applied first, before the ceilings.
CapFloorFirst(s, now_ms, bitrate) ==
    LET below == bitrate < s.min_bitrate_configured_
        b0 == IF below THEN s.min_bitrate_configured_ ELSE bitrate
        b1 == IF s.bwe_incoming_ > 0 /\ b0 > s.bwe_incoming_
              THEN s.bwe_incoming_ ELSE b0
        b2 == IF s.delay_based_bitrate_bps_ > 0
                  /\ b1 > s.delay_based_bitrate_bps_
              THEN s.delay_based_bitrate_bps_ ELSE b1
        warn == /\ below
                /\ \/ s.last_low_bitrate_log_ms_ = -1
                   \/ now_ms - s.last_low_bitrate_log_ms_
                          > kLowBitrateLogPeriodMs
    IN  [bitrate |-> IF b2 > s.max_bitrate_configured_
                     THEN s.max_bitrate_configured_ ELSE b2,
         self |-> [s EXCEPT !.last_low_bitrate_log_ms_ =
                                IF warn THEN now_ms ELSE @]]

\* CapBitrateToThresholds with the floor applied inside the warning's rate
\* limit: only when the warning is logged.
CapFloorWhenWarned(s, now_ms, bitrate) ==
    LET b1 == IF s.bwe_incoming_ > 0 /\ bitrate > s.bwe_incoming_
              THEN s.bwe_incoming_ ELSE bitrate
        b2 == IF s.delay_based_bitrate_bps_ > 0
                  /\ b1 > s.delay_based_bitrate_bps_
              THEN s.delay_based_bitrate_bps_ ELSE b1
        b3 == IF b2 > s.max_bitrate_configured_
              THEN s.max_bitrate_configured_ ELSE b2
        warn == /\ b3 < s.min_bitrate_configured_
                /\ \/ s.last_low_bitrate_log_ms_ = -1
                   \/ now_ms - s.last_low_bitrate_log_ms_
                          > kLowBitrateLogPeriodMs
    IN  [bitrate |-> IF warn THEN s.min_bitrate_configured_ ELSE b3,
         self |-> [s EXCEPT !.last_low_bitrate_log_ms_ =
                                IF warn THEN now_ms ELSE @]]

\* SendSideBandwidthEstimation::CapBitrateToThresholds: the capped bitrate,
\* and the estimator after the call (the time of the "below configured min
\* bitrate" warning).
CapBitrateToThresholds(s, now_ms, bitrate) ==
    LET b1 == IF s.bwe_incoming_ > 0 /\ bitrate > s.bwe_incoming_
              THEN s.bwe_incoming_ ELSE bitrate
        b2 == IF s.delay_based_bitrate_bps_ > 0
                  /\ b1 > s.delay_based_bitrate_bps_
              THEN s.delay_based_bitrate_bps_ ELSE b1
        b3 == IF b2 > s.max_bitrate_configured_
              THEN s.max_bitrate_configured_ ELSE b2
        below == b3 < s.min_bitrate_configured_
        warn == /\ below
                /\ \/ s.last_low_bitrate_log_ms_ = -1
                   \/ now_ms - s.last_low_bitrate_log_ms_
                          > kLowBitrateLogPeriodMs
    IN  [bitrate |-> IF below THEN s.min_bitrate_configured_ ELSE b3,
         self |-> [s EXCEPT !.last_low_bitrate_log_ms_ =
                                IF warn THEN now_ms ELSE @]]

\* bitrate_ = CapBitrateToThresholds(now_ms, bitrate)
AssignCapped(s, now_ms, bitrate) ==
    LET c == CapBitrateToThresholds(s, now_ms, bitrate)
    IN  [c.self EXCEPT !.bitrate_ = c.bitrate]

\* The history of samples after the sample (now_ms, bitrate): the samples
\* older than kBweIncreaseIntervalMs are dropped.
RecordSample(samples, now_ms, bitrate) ==
    {x \in samples : now_ms - x.first + 1 <= kBweIncreaseIntervalMs}
        \cup {[first |-> now_ms, second |-> bitrate, forgotten |-> FALSE]}

\* The history of samples after min_bitrate_history_.clear().
ForgetSamples(samples) == {[x EXCEPT !.forgotten = TRUE] : x \in samples}

\* The first loop of UpdateMinHistory: old data points leave the front.
RECURSIVE PopExpired(_, _)
PopExpired(h, now_ms) ==
    IF h # <<>> /\ now_ms - Head(h).first + 1 > kBweIncreaseIntervalMs
    THEN PopExpired(Tail(h), now_ms)
    ELSE h

\* The second loop of UpdateMinHistory: values not below the current
\* bitrate leave the back.
RECURSIVE PopHigher(_, _)
PopHigher(h, bitrate) ==
    IF h # <<>> /\ bitrate <= h[Len(h)].second
    THEN PopHigher(SubSeq(h, 1, Len(h) - 1), bitrate)
    ELSE h

\* UpdateMinHistory without its second loop: the bitrate is pushed behind
\* values that are not below it.
UpdateMinHistoryKeepsHigher(s, now_ms) ==
    [s EXCEPT
        !.min_bitrate_history_ =
            Append(PopExpired(@, now_ms),
                   [first |-> now_ms, second |-> s.bitrate_]),
        !.recorded_samples = RecordSample(@, now_ms, s.bitrate_)]

\* UpdateMinHistory without its first loop: old data points stay at the
\* front.
UpdateMinHistoryKeepsExpired(s, now_ms) ==
    [s EXCEPT
        !.min_bitrate_history_ =
            Append(PopHigher(@, s.bitrate_),
                   [first |-> now_ms, second |-> s.bitrate_]),
        !.recorded_samples = RecordSample(@, now_ms, s.bitrate_)]

\* SendSideBandwidthEstimation::UpdateMinHistory
UpdateMinHistory(s, now_ms) ==
    [s EXCEPT
        !.min_bitrate_history_ =
            Append(PopHigher(PopExpired(@, now_ms), s.bitrate_),
                   [first |-> now_ms, second |-> s.bitrate_]),
        !.recorded_samples = RecordSample(@, now_ms, s.bitrate_)]

\* StartupTrust adopting the hints as they are, not capped.
StartupTrustUncapped(s, now_ms) ==
    LET s1 == IF s.bwe_incoming_ > s.bitrate_
              THEN [s EXCEPT !.bitrate_ = s.bwe_incoming_] ELSE s
    IN  IF s1.delay_based_bitrate_bps_ > s1.bitrate_
        THEN [s1 EXCEPT !.bitrate_ = s1.delay_based_bitrate_bps_] ELSE s1

\* StartupTrust adopting a hint that differs from the bitrate, not only one
\* above it.
StartupTrustAdoptsAny(s, now_ms) ==
    LET s1 == IF s.bwe_incoming_ # s.bitrate_
              THEN AssignCapped(s, now_ms, s.bwe_incoming_) ELSE s
    IN  IF s1.delay_based_bitrate_bps_ # s1.bitrate_
        THEN AssignCapped(s1, now_ms, s1.delay_based_bitrate_bps_) ELSE s1

\* UpdateEstimate, the startup branch: the REMB and the delay-based
\* estimate are adopted when above the bitrate.
StartupTrust(s, now_ms) ==
    LET s1 == IF s.bwe_incoming_ > s.bitrate_
              THEN AssignCapped(s, now_ms, s.bwe_incoming_) ELSE s
    IN  IF s1.delay_based_bitrate_bps_ > s1.bitrate_
        THEN AssignCapped(s1, now_ms, s1.delay_based_bitrate_bps_) ELSE s1

\* loss <= threshold, for loss = last_fraction_loss_ / 256.0f and a
\* threshold in thousandths
LossAtMost(fraction_loss, threshold) == 1000 * fraction_loss <= 256 * threshold

\* LossBasedControl decreasing without regard to
\* has_decreased_since_last_fraction_loss_.
LossBasedControlNoLatch(s, now_ms) ==
    IF \/ s.bitrate_ < s.bitrate_threshold_bps_
       \/ LossAtMost(s.last_fraction_loss_, s.low_loss_threshold_)
    THEN [s EXCEPT !.bitrate_ =
              IncreaseBy8Percent(s.min_bitrate_history_[1].second) + 1000]
    ELSE IF /\ s.bitrate_ > s.bitrate_threshold_bps_
            /\ ~LossAtMost(s.last_fraction_loss_, s.high_loss_threshold_)
            /\ now_ms - s.time_last_decrease_ms_
                   >= kBweDecreaseIntervalMs + s.last_round_trip_time_ms_
    THEN [s EXCEPT !.time_last_decrease_ms_ = now_ms,
                   !.bitrate_ = DecreaseByLoss(@, s.last_fraction_loss_),
                   !.has_decreased_since_last_fraction_loss_ = TRUE]
    ELSE s

\* LossBasedControl increasing from the current bitrate, not from the
\* front of min_bitrate_history_.
LossBasedControlFromCurrent(s, now_ms) ==
    IF \/ s.bitrate_ < s.bitrate_threshold_bps_
       \/ LossAtMost(s.last_fraction_loss_, s.low_loss_threshold_)
    THEN [s EXCEPT !.bitrate_ = IncreaseBy8Percent(s.bitrate_) + 1000]
    ELSE IF /\ s.bitrate_ > s.bitrate_threshold_bps_
            /\ ~LossAtMost(s.last_fraction_loss_, s.high_loss_threshold_)
            /\ ~s.has_decreased_since_last_fraction_loss_
            /\ now_ms - s.time_last_decrease_ms_
                   >= kBweDecreaseIntervalMs + s.last_round_trip_time_ms_
    THEN [s EXCEPT !.time_last_decrease_ms_ = now_ms,
                   !.bitrate_ = DecreaseByLoss(@, s.last_fraction_loss_),
                   !.has_decreased_since_last_fraction_loss_ = TRUE]
    ELSE s

\* UpdateEstimate, the branch taken on fresh feedback: increase, hold or
\* decrease by the loss.
LossBasedControl(s, now_ms) ==
    IF \/ s.bitrate_ < s.bitrate_threshold_bps_
       \/ LossAtMost(s.last_fraction_loss_, s.low_loss_threshold_)
    THEN [s EXCEPT !.bitrate_ =
              IncreaseBy8Percent(s.min_bitrate_history_[1].second) + 1000]
    ELSE IF /\ s.bitrate_ > s.bitrate_threshold_bps_
            /\ ~LossAtMost(s.last_fraction_loss_, s.high_loss_threshold_)
            /\ ~s.has_decreased_since_last_fraction_loss_
            /\ now_ms - s.time_last_decrease_ms_
                   >= kBweDecreaseIntervalMs + s.last_round_trip_time_ms_
    THEN [s EXCEPT !.time_last_decrease_ms_ = now_ms,
                   !.bitrate_ = DecreaseByLoss(@, s.last_fraction_loss_),
                   !.has_decreased_since_last_fraction_loss_ = TRUE]
    ELSE s

\* FeedbackTimeout acting whether or not WebRTC-FeedbackTimeout is enabled.
FeedbackTimeoutAlways(s, now_ms) ==
    [s EXCEPT !.bitrate_ = TimeoutDecrease(@),
              !.lost_packets_since_last_loss_update_Q8_ = 0,
              !.expected_packets_since_last_loss_update_ = 0,
              !.fraction_loss_since_last_loss_update = {},
              !.last_timeout_ms_ = now_ms]

\* FeedbackTimeout reducing the bitrate for the first timeout only.
FeedbackTimeoutOnce(s, now_ms) ==
    IF s.in_timeout_experiment_ /\ s.last_timeout_ms_ = -1
    THEN [s EXCEPT !.bitrate_ = TimeoutDecrease(@),
                   !.lost_packets_since_last_loss_update_Q8_ = 0,
                   !.expected_packets_since_last_loss_update_ = 0,
                   !.fraction_loss_since_last_loss_update = {},
                   !.last_timeout_ms_ = now_ms]
    ELSE s

\* UpdateEstimate, the branch taken when the feedback timed out.
FeedbackTimeout(s, now_ms) ==
    IF s.in_timeout_experiment_
    THEN [s EXCEPT !.bitrate_ = TimeoutDecrease(@),
                   !.lost_packets_since_last_loss_update_Q8_ = 0,
                   !.expected_packets_since_last_loss_update_ = 0,
                   !.fraction_loss_since_last_loss_update = {},
                   !.last_timeout_ms_ = now_ms]
    ELSE s

\* CapAndLog without regard to kRtcEventLogPeriodMs: an unchanged estimate
\* is logged once only.
CapAndLogWithoutPeriod(s, now_ms) ==
    LET c == CapBitrateToThresholds(s, now_ms, s.bitrate_)
        log == \/ c.bitrate # s.bitrate_
               \/ s.last_fraction_loss_ # s.last_logged_fraction_loss_
               \/ s.last_rtc_event_log_ms_ = -1
        event == [bitrate |-> c.bitrate,
                  fraction_loss |-> s.last_fraction_loss_,
                  expected_packets |->
                      s.expected_packets_since_last_loss_update_]
    IN  [c.self EXCEPT
            !.event_log_ = IF log THEN Append(@, event) ELSE @,
            !.last_logged_fraction_loss_ =
                IF log THEN s.last_fraction_loss_ ELSE @,
            !.last_rtc_event_log_ms_ = IF log THEN now_ms ELSE @,
            !.bitrate_ = c.bitrate]

\* UpdateEstimate, its end: the bitrate is capped and the update logged.
CapAndLog(s, now_ms) ==
    LET c == CapBitrateToThresholds(s, now_ms, s.bitrate_)
        log == \/ c.bitrate # s.bitrate_
               \/ s.last_fraction_loss_ # s.last_logged_fraction_loss_
               \/ s.last_rtc_event_log_ms_ = -1
               \/ now_ms - s.last_rtc_event_log_ms_ > kRtcEventLogPeriodMs
        event == [bitrate |-> c.bitrate,
                  fraction_loss |-> s.last_fraction_loss_,
                  expected_packets |->
                      s.expected_packets_since_last_loss_update_]
    IN  [c.self EXCEPT
            !.event_log_ = IF log THEN Append(@, event) ELSE @,
            !.last_logged_fraction_loss_ =
                IF log THEN s.last_fraction_loss_ ELSE @,
            !.last_rtc_event_log_ms_ = IF log THEN now_ms ELSE @,
            !.bitrate_ = c.bitrate]

\* UpdateEstimate without the return on last_packet_report_ms_ == -1: the
\* loss-based control runs before any receiver block.
UpdateEstimateNoFeedbackCheck(s, now_ms) ==
    LET startup == s.last_fraction_loss_ = 0 /\ IsInStartPhase(s, now_ms)
        s1 == IF startup THEN StartupTrust(s, now_ms) ELSE s
        s2 == UpdateMinHistory(s1, now_ms)
        time_since_packet_report_ms == now_ms - s2.last_packet_report_ms_
        time_since_feedback_ms == now_ms - s2.last_feedback_ms_
    IN  IF startup /\ s1.bitrate_ # s.bitrate_
        THEN [s1 EXCEPT
                 !.min_bitrate_history_ =
                     <<[first |-> now_ms, second |-> s1.bitrate_]>>,
                 !.recorded_samples =
                     RecordSample(ForgetSamples(@), now_ms, s1.bitrate_)]
        ELSE IF 10 * time_since_packet_report_ms < 12 * kFeedbackIntervalMs
        THEN CapAndLog(LossBasedControl(s2, now_ms), now_ms)
        ELSE IF /\ time_since_feedback_ms
                       > kFeedbackTimeoutIntervals * kFeedbackIntervalMs
                /\ \/ s2.last_timeout_ms_ = -1
                   \/ now_ms - s2.last_timeout_ms_ > kTimeoutIntervalMs
        THEN CapAndLog(FeedbackTimeout(s2, now_ms), now_ms)
        ELSE CapAndLog(s2, now_ms)

\* SendSideBandwidthEstimation::UpdateEstimate
UpdateEstimate(s, now_ms) ==
    LET startup == s.last_fraction_loss_ = 0 /\ IsInStartPhase(s, now_ms)
        s1 == IF startup THEN StartupTrust(s, now_ms) ELSE s
        s2 == UpdateMinHistory(s1, now_ms)
        time_since_packet_report_ms == now_ms - s2.last_packet_report_ms_
        time_since_feedback_ms == now_ms - s2.last_feedback_ms_
    IN  IF startup /\ s1.bitrate_ # s.bitrate_
        THEN [s1 EXCEPT
                 !.min_bitrate_history_ =
                     <<[first |-> now_ms, second |-> s1.bitrate_]>>,
                 !.recorded_samples =
                     RecordSample(ForgetSamples(@), now_ms, s1.bitrate_)]
        ELSE IF s2.last_packet_report_ms_ = -1
        THEN AssignCapped(s2, now_ms, s2.bitrate_)
        ELSE IF 10 * time_since_packet_report_ms < 12 * kFeedbackIntervalMs
        THEN CapAndLog(LossBasedControl(s2, now_ms), now_ms)
        ELSE IF /\ time_since_feedback_ms
                       > kFeedbackTimeoutIntervals * kFeedbackIntervalMs
                /\ \/ s2.last_timeout_ms_ = -1
                   \/ now_ms - s2.last_timeout_ms_ > kTimeoutIntervalMs
        THEN CapAndLog(FeedbackTimeout(s2, now_ms), now_ms)
        ELSE CapAndLog(s2, now_ms)

\* The RTC_HISTOGRAM name of ramp-up milestone i.
RampUpMetricName(i) ==
    CASE i = 1 -> "WebRTC.BWE.RampUpTimeTo500kbpsInMs"
      [] i = 2 -> "WebRTC.BWE.RampUpTimeTo1000kbpsInMs"
      [] OTHER -> "WebRTC.BWE.RampUpTimeTo2000kbpsInMs"

\* UpdateUmaStats taking the state to kDone kBweConverganceTimeMs after
\* the first report whether or not it was kFirstDone.
UpdateUmaStatsSkipsFirstDone(s, now_ms, rtt, lost_packets) ==
    LET bitrate_kbps == (s.bitrate_ + 500) \div 1000
    IN  IF IsInStartPhase(s, now_ms)
        THEN [s EXCEPT !.initially_lost_packets_ = @ + lost_packets]
        ELSE IF /\ s.uma_update_state_ # kDone
                /\ now_ms - s.first_report_time_ms_ >= kBweConverganceTimeMs
        THEN [s EXCEPT
                 !.uma_update_state_ = kDone,
                 !.histograms = @ \cup
                     {[name |-> "WebRTC.BWE.InitialVsConvergedDiff",
                       sample |-> Max(s.bitrate_at_2_seconds_kbps_
                                          - bitrate_kbps, 0)]}]
        ELSE IF s.uma_update_state_ = kNoUpdate
        THEN [s EXCEPT
                 !.uma_update_state_ = kFirstDone,
                 !.bitrate_at_2_seconds_kbps_ = bitrate_kbps,
                 !.histograms = @ \cup
                     {[name |-> "WebRTC.BWE.InitiallyLostPackets",
                       sample |-> s.initially_lost_packets_],
                      [name |-> "WebRTC.BWE.InitialRtt", sample |-> rtt],
                      [name |-> "WebRTC.BWE.InitialBandwidthEstimate",
                       sample |-> bitrate_kbps]}]
        ELSE s

\* SendSideBandwidthEstimation::UpdateUmaStats
UpdateUmaStats(s, now_ms, rtt, lost_packets) ==
    LET bitrate_kbps == (s.bitrate_ + 500) \div 1000
        reached == {i \in 1..kNumUmaRampupMetrics :
                        /\ ~s.rampup_uma_stats_updated_[i]
                        /\ bitrate_kbps >= kUmaRampupMetrics[i]}
        s1 == [s EXCEPT
                  !.histograms = @ \cup
                      {[name |-> RampUpMetricName(i),
                        sample |-> now_ms - s.first_report_time_ms_] :
                       i \in reached},
                  !.rampup_uma_stats_updated_ =
                      [i \in 1..kNumUmaRampupMetrics |-> @[i] \/ i \in reached]]
    IN  IF IsInStartPhase(s1, now_ms)
        THEN [s1 EXCEPT !.initially_lost_packets_ = @ + lost_packets]
        ELSE IF s1.uma_update_state_ = kNoUpdate
        THEN [s1 EXCEPT
                 !.uma_update_state_ = kFirstDone,
                 !.bitrate_at_2_seconds_kbps_ = bitrate_kbps,
                 !.histograms = @ \cup
                     {[name |-> "WebRTC.BWE.InitiallyLostPackets",
                       sample |-> s1.initially_lost_packets_],
                      [name |-> "WebRTC.BWE.InitialRtt", sample |-> rtt],
                      [name |-> "WebRTC.BWE.InitialBandwidthEstimate",
                       sample |-> bitrate_kbps]}]
        ELSE IF /\ s1.uma_update_state_ = kFirstDone
                /\ now_ms - s1.first_report_time_ms_ >= kBweConverganceTimeMs
        THEN [s1 EXCEPT
                 !.uma_update_state_ = kDone,
                 !.histograms = @ \cup
                     {[name |-> "WebRTC.BWE.InitialVsConvergedDiff",
                       sample |-> Max(s1.bitrate_at_2_seconds_kbps_
                                          - bitrate_kbps, 0)]}]
        ELSE s1

\* AccumulateReport adding the loss of the block without weighting it by
\* the packets of the block.
AccumulateReportUnweighted(s, fraction_loss, rtt, number_of_packets, now_ms) ==
    LET s1 == [s EXCEPT
                  !.last_feedback_ms_ = now_ms,
                  !.first_report_time_ms_ = IF @ = -1 THEN now_ms ELSE @,
                  !.last_round_trip_time_ms_ = rtt]
    IN  IF number_of_packets > 0
        THEN [s1 EXCEPT
                 !.lost_packets_since_last_loss_update_Q8_ =
                     @ + fraction_loss,
                 !.expected_packets_since_last_loss_update_ =
                     @ + number_of_packets,
                 !.fraction_loss_since_last_loss_update =
                     @ \cup {fraction_loss}]
        ELSE s1

\* UpdateReceiverBlock, its start: the feedback time, the RTT and, for a
\* block of packets, the accumulators.
AccumulateReport(s, fraction_loss, rtt, number_of_packets, now_ms) ==
    LET num_lost_packets_Q8 == fraction_loss * number_of_packets
        s1 == [s EXCEPT
                  !.last_feedback_ms_ = now_ms,
                  !.first_report_time_ms_ = IF @ = -1 THEN now_ms ELSE @,
                  !.last_round_trip_time_ms_ = rtt]
    IN  IF number_of_packets > 0
        THEN [s1 EXCEPT
                 !.lost_packets_since_last_loss_update_Q8_ =
                     @ + num_lost_packets_Q8,
                 !.expected_packets_since_last_loss_update_ =
                     @ + number_of_packets,
                 !.fraction_loss_since_last_loss_update =
                     @ \cup {fraction_loss}]
        ELSE s1

\* NewLossFraction leaving the accumulators as they are.
NewLossFractionKeepsAccumulators(s, now_ms) ==
    [s EXCEPT
        !.has_decreased_since_last_fraction_loss_ = FALSE,
        !.last_fraction_loss_ =
            (s.lost_packets_since_last_loss_update_Q8_
             \div s.expected_packets_since_last_loss_update_) % 256,
        !.last_packet_report_ms_ = now_ms]

\* UpdateReceiverBlock, the loss rate of enough packets: the quotient of
\* the accumulators, stored in the uint8_t last_fraction_loss_.
NewLossFraction(s, now_ms) ==
    [s EXCEPT
        !.has_decreased_since_last_fraction_loss_ = FALSE,
        !.last_fraction_loss_ =
            (s.lost_packets_since_last_loss_update_Q8_
             \div s.expected_packets_since_last_loss_update_) % 256,
        !.lost_packets_since_last_loss_update_Q8_ = 0,
        !.expected_packets_since_last_loss_update_ = 0,
        !.fraction_loss_since_last_loss_update = {},
        !.last_packet_report_ms_ = now_ms]

\* UpdateReceiverBlock without the return on fewer than kLimitNumPackets
\* accumulated packets.
UpdateReceiverBlockNoLimit(s, fraction_loss, rtt, number_of_packets, now_ms) ==
    LET s1 == AccumulateReport(s, fraction_loss, rtt, number_of_packets,
                               now_ms)
        lost_packets == (fraction_loss * number_of_packets) \div 256
    IN  IF number_of_packets > 0
        THEN UpdateUmaStats(
                 UpdateEstimate(NewLossFraction(s1, now_ms), now_ms),
                 now_ms, rtt, lost_packets)
        ELSE UpdateUmaStats(s1, now_ms, rtt, lost_packets)

\* SendSideBandwidthEstimation::UpdateReceiverBlock
UpdateReceiverBlock(s, fraction_loss, rtt, number_of_packets, now_ms) ==
    LET s1 == AccumulateReport(s, fraction_loss, rtt, number_of_packets,
                               now_ms)
        lost_packets == (fraction_loss * number_of_packets) \div 256
    IN  IF number_of_packets > 0
        THEN IF s1.expected_packets_since_last_loss_update_ < kLimitNumPackets
             THEN s1
             ELSE UpdateUmaStats(
                      UpdateEstimate(NewLossFraction(s1, now_ms), now_ms),
                      now_ms, rtt, lost_packets)
        ELSE UpdateUmaStats(s1, now_ms, rtt, lost_packets)

\* SendSideBandwidthEstimation::UpdateReceiverEstimate
UpdateReceiverEstimate(s, now_ms, bandwidth) ==
    AssignCapped([s EXCEPT !.bwe_incoming_ = bandwidth], now_ms, s.bitrate_)

\* SendSideBandwidthEstimation::UpdateDelayBasedEstimate
UpdateDelayBasedEstimate(s, now_ms, bitrate_bps) ==
    AssignCapped([s EXCEPT !.delay_based_bitrate_bps_ = bitrate_bps],
                 now_ms, s.bitrate_)

\* SetSendBitrate leaving min_bitrate_history_ as it is.
SetSendBitrateKeepsHistory(s, bitrate) ==
    [s EXCEPT !.bitrate_ = bitrate]

\* SendSideBandwidthEstimation::SetSendBitrate
SetSendBitrate(s, bitrate) ==
    [s EXCEPT !.bitrate_ = bitrate,
              !.min_bitrate_history_ = <<>>,
              !.recorded_samples = ForgetSamples(@)]

\* SendSideBandwidthEstimation::SetMinMaxBitrate
SetMinMaxBitrate(s, min_bitrate, max_bitrate) ==
    LET min_configured == Max(min_bitrate, GetMinBitrateBps)
    IN  [s EXCEPT
            !.min_bitrate_configured_ = min_configured,
            !.max_bitrate_configured_ =
                IF max_bitrate > 0
                THEN Max(min_configured, max_bitrate)
                ELSE kDefaultMaxBitrateBps]

\* SendSideBandwidthEstimation::SetBitrates
SetBitrates(s, send_bitrate, min_bitrate, max_bitrate) ==
    SetMinMaxBitrate(IF send_bitrate > 0
                     THEN SetSendBitrate(s, send_bitrate) ELSE s,
                     min_bitrate, max_bitrate)

\* SendSideBandwidthEstimation::CurrentEstimate
CurrentEstimate ==
    [bitrate |-> bitrate_, loss |-> last_fraction_loss_,
     rtt |-> last_round_trip_time_ms_]

\* SendSideBandwidthEstimation::GetMinBitrate
GetMinBitrate == min_bitrate_configured_

\* ----------------------------------------------------------- the caller
\* What the owner of the estimator passes to it.  LoopInputs are the
\* values of the scenarios of the specification (100 kbps start, 10 kbps
\* floor, 2 Mbps ceiling, a 500 kbps delay-based estimate, an 800 kbps
\* REMB), with a REMB below the floor and receiver blocks with and
\* without loss.
LoopInputs ==
    [send_bitrate |-> {100000},
     min_bitrate |-> {10000},
     max_bitrate |-> {2000000},
     bandwidth |-> {5000, 800000},
     delay_based |-> {500000},
     fraction_loss |-> {0, 64},
     number_of_packets |-> {40},
     rtt |-> {100},
     step_ms |-> {0, 500}]

\* CapInputs are the bounds and hints the capping is about: besides the
\* constructor's floor, floors above the start bitrate and above the
\* default ceiling; the default ceiling (max_bitrate 0) and one below the
\* floors; hints that are absent (0), below the floor and above the
\* ceiling; and calls more than kLowBitrateLogPeriodMs apart.
CapInputs ==
    [send_bitrate |-> {100000},
     min_bitrate |-> {200000, 1500000000},
     max_bitrate |-> {0, 150000},
     bandwidth |-> {0, 5000, 800000},
     delay_based |-> {0, 120000},
     fraction_loss |-> {0},
     number_of_packets |-> {40},
     rtt |-> {100},
     step_ms |-> {0, 10001}]

\* TimeoutInputs are receiver blocks with a high loss, thin (10 packets)
\* and full (40 packets), followed by silence: calls 1000 ms apart
\* (kTimeoutIntervalMs) and more than kFeedbackTimeoutIntervals *
\* kFeedbackIntervalMs apart.
TimeoutInputs ==
    [send_bitrate |-> {100000},
     min_bitrate |-> {10000},
     max_bitrate |-> {2000000},
     bandwidth |-> {800000},
     delay_based |-> {500000},
     fraction_loss |-> {64},
     number_of_packets |-> {10, 40},
     rtt |-> {100},
     step_ms |-> {1000, 4501}]

\* UmaInputs are receiver blocks without packets and of 10 packets (one
\* is thin, a second one makes kLimitNumPackets), with a loss of a quarter,
\* kStartPhaseMs and kBweConverganceTimeMs apart.
UmaInputs ==
    [send_bitrate |-> {100000},
     min_bitrate |-> {10000},
     max_bitrate |-> {2000000},
     bandwidth |-> {800000},
     delay_based |-> {500000},
     fraction_loss |-> {64},
     number_of_packets |-> {0, 10},
     rtt |-> {100},
     step_ms |-> {2000, 20000}]

\* LossInputs are receiver blocks of 7 and of 25 packets with a loss of
\* 100/256 and the largest loss, 255/256, each call after a silence of more
\* than kFeedbackTimeoutIntervals * kFeedbackIntervalMs.
LossInputs ==
    [send_bitrate |-> {100000},
     min_bitrate |-> {10000},
     max_bitrate |-> {2000000},
     bandwidth |-> {800000},
     delay_based |-> {500000},
     fraction_loss |-> {100, 255},
     number_of_packets |-> {7, 25},
     rtt |-> {100},
     step_ms |-> {4501}]

\* SendInputs are two send bitrates, 100 kbps and 300 kbps, and receiver
\* blocks without loss.
SendInputs ==
    [send_bitrate |-> {100000, 300000},
     min_bitrate |-> {10000},
     max_bitrate |-> {2000000},
     bandwidth |-> {800000},
     delay_based |-> {500000},
     fraction_loss |-> {0},
     number_of_packets |-> {40},
     rtt |-> {100},
     step_ms |-> {0, 500}]

\* IncreaseInputs are receiver blocks of 30 packets with no loss, a loss
\* of 2/256 and a loss of 64/256, at the same time or 600 ms apart.
IncreaseInputs ==
    [send_bitrate |-> {100000},
     min_bitrate |-> {10000},
     max_bitrate |-> {2000000},
     bandwidth |-> {800000},
     delay_based |-> {500000},
     fraction_loss |-> {0, 2, 64},
     number_of_packets |-> {30},
     rtt |-> {100},
     step_ms |-> {0, 600}]

\* LogInputs are receiver blocks of 40 packets with no loss or a loss of
\* 64/256, at the same time or 5001 ms apart: within and beyond the start
\* phase, within and beyond kRtcEventLogPeriodMs of the last log.
LogInputs ==
    [send_bitrate |-> {100000},
     min_bitrate |-> {10000},
     max_bitrate |-> {2000000},
     bandwidth |-> {800000},
     delay_based |-> {500000},
     fraction_loss |-> {0, 64},
     number_of_packets |-> {40},
     rtt |-> {100},
     step_ms |-> {0, 5001}]

\* FloorInputs are a floor at the constructor's value and one above the
\* start bitrate, set and set back between receiver blocks without loss
\* that come at the same time or 500 ms apart.
FloorInputs ==
    [send_bitrate |-> {100000},
     min_bitrate |-> {10000, 200000},
     max_bitrate |-> {2000000},
     bandwidth |-> {800000},
     delay_based |-> {500000},
     fraction_loss |-> {0},
     number_of_packets |-> {40},
     rtt |-> {100},
     step_ms |-> {0, 500}]

\* StarvedInputs are hints far above the floor, adopted in the start
\* phase, and full receiver blocks with a loss of a quarter, all calls
\* 1100 ms apart: more than kTimeoutIntervalMs.
StarvedInputs ==
    [send_bitrate |-> {100000},
     min_bitrate |-> {10000},
     max_bitrate |-> {2000000},
     bandwidth |-> {800000},
     delay_based |-> {500000},
     fraction_loss |-> {64},
     number_of_packets |-> {40},
     rtt |-> {100},
     step_ms |-> {1100}]

\* The now_ms of the next call: time does not go back.
NowInputs(in) == {now + d : d \in in.step_ms}

\* ---------------------------------------------------------- actions
\* The field trials the process may run under: WebRTC-BweLossExperiment
\* (low and high loss threshold in thousandths, bitrate threshold in kbps)
\* and WebRTC-FeedbackTimeout.
FieldTrials ==
    {[low |-> kDefaultLowLossThreshold, high |-> kDefaultHighLossThreshold,
      kbps |-> kDefaultBitrateThresholdKbps, timeout |-> FALSE]}

\* The default field trials with WebRTC-FeedbackTimeout disabled and
\* enabled.
TimeoutTrials ==
    {[low |-> kDefaultLowLossThreshold, high |-> kDefaultHighLossThreshold,
      kbps |-> kDefaultBitrateThresholdKbps, timeout |-> enabled] :
     enabled \in BOOLEAN}

\* The estimator as constructed under the field trials trial, before any
\* call.
Constructed(trial) ==
    LET s == Constructor(trial.low, trial.high, trial.kbps, trial.timeout)
    IN  /\ lost_packets_since_last_loss_update_Q8_ = s.lost_packets_since_last_loss_update_Q8_
        /\ expected_packets_since_last_loss_update_ = s.expected_packets_since_last_loss_update_
        /\ bitrate_ = s.bitrate_
        /\ min_bitrate_configured_ = s.min_bitrate_configured_
        /\ max_bitrate_configured_ = s.max_bitrate_configured_
        /\ last_low_bitrate_log_ms_ = s.last_low_bitrate_log_ms_
        /\ has_decreased_since_last_fraction_loss_ = s.has_decreased_since_last_fraction_loss_
        /\ last_feedback_ms_ = s.last_feedback_ms_
        /\ last_packet_report_ms_ = s.last_packet_report_ms_
        /\ last_timeout_ms_ = s.last_timeout_ms_
        /\ last_fraction_loss_ = s.last_fraction_loss_
        /\ last_logged_fraction_loss_ = s.last_logged_fraction_loss_
        /\ last_round_trip_time_ms_ = s.last_round_trip_time_ms_
        /\ bwe_incoming_ = s.bwe_incoming_
        /\ delay_based_bitrate_bps_ = s.delay_based_bitrate_bps_
        /\ time_last_decrease_ms_ = s.time_last_decrease_ms_
        /\ first_report_time_ms_ = s.first_report_time_ms_
        /\ initially_lost_packets_ = s.initially_lost_packets_
        /\ bitrate_at_2_seconds_kbps_ = s.bitrate_at_2_seconds_kbps_
        /\ uma_update_state_ = s.uma_update_state_
        /\ rampup_uma_stats_updated_ = s.rampup_uma_stats_updated_
        /\ last_rtc_event_log_ms_ = s.last_rtc_event_log_ms_
        /\ in_timeout_experiment_ = s.in_timeout_experiment_
        /\ low_loss_threshold_ = s.low_loss_threshold_
        /\ high_loss_threshold_ = s.high_loss_threshold_
        /\ bitrate_threshold_bps_ = s.bitrate_threshold_bps_
        /\ min_bitrate_history_ = s.min_bitrate_history_
        /\ event_log_ = s.event_log_
        /\ histograms = s.histograms
        /\ fraction_loss_since_last_loss_update =
               s.fraction_loss_since_last_loss_update
        /\ recorded_samples = s.recorded_samples
        /\ now = 0
        /\ last_op = "Constructor"
        /\ calls = 0
        /\ starved = FALSE

\* A process with the default field trials.
Init == \E trial \in FieldTrials : Constructed(trial)

\* A process with WebRTC-FeedbackTimeout disabled or enabled.
InitTimeout == \E trial \in TimeoutTrials : Constructed(trial)

\* A call that leaves the estimator as s.
Call(op, now_ms, s) ==
    /\ calls < MaxCalls
    /\ calls' = calls + 1
    /\ Commit(s)
    /\ now' = now_ms
    /\ last_op' = op
    /\ starved ' = starved

DoSetBitrates(in) ==
    \E send_bitrate \in in.send_bitrate \cup {0},
       min_bitrate \in in.min_bitrate, max_bitrate \in in.max_bitrate :
        Call("SetBitrates", now,
             SetBitrates(Self, send_bitrate, min_bitrate, max_bitrate))

DoSetSendBitrate(in) ==
    \E bitrate \in in.send_bitrate :
        Call("SetSendBitrate", now, SetSendBitrate(Self, bitrate))

DoSetMinMaxBitrate(in) ==
    \E min_bitrate \in in.min_bitrate, max_bitrate \in in.max_bitrate :
        Call("SetMinMaxBitrate", now,
             SetMinMaxBitrate(Self, min_bitrate, max_bitrate))

DoUpdateReceiverEstimate(in) ==
    \E now_ms \in NowInputs(in), bandwidth \in in.bandwidth :
        Call("UpdateReceiverEstimate", now_ms,
             UpdateReceiverEstimate(Self, now_ms, bandwidth))

DoUpdateDelayBasedEstimate(in) ==
    \E now_ms \in NowInputs(in), bitrate_bps \in in.delay_based :
        Call("UpdateDelayBasedEstimate", now_ms,
             UpdateDelayBasedEstimate(Self, now_ms, bitrate_bps))

DoUpdateReceiverBlock(in) ==
    \E now_ms \in NowInputs(in), fraction_loss \in in.fraction_loss,
       rtt \in in.rtt, number_of_packets \in in.number_of_packets :
        Call("UpdateReceiverBlock", now_ms,
             UpdateReceiverBlock(Self, fraction_loss, rtt, number_of_packets,
                                 now_ms))

DoUpdateEstimate(in) ==
    \E now_ms \in NowInputs(in) :
        Call("UpdateEstimate", now_ms, UpdateEstimate(Self, now_ms))

Next(in) ==
    \/ DoSetBitrates(in)
    \/ DoSetSendBitrate(in)
    \/ DoSetMinMaxBitrate(in)
    \/ DoUpdateReceiverEstimate(in)
    \/ DoUpdateDelayBasedEstimate(in)
    \/ DoUpdateReceiverBlock(in)
    \/ DoUpdateEstimate(in)

\* UpdateEstimate called by an owner that, after a loss fraction was
\* produced, reports no receiver block and no estimate and sets no bitrate
\* any more, and whose now_ms advances, here up to MaxStarvedMs.
DoStarvedUpdateEstimate(in) ==
    \E now_ms \in {now + d : d \in in.step_ms \ {0}} :
        /\ last_packet_report_ms_ # -1
        /\ now_ms <= MaxStarvedMs
        /\ \E s \in {UpdateEstimate(Self, now_ms)} : Commit(s)
        /\ now' = now_ms
        /\ last_op' = "UpdateEstimate"
        /\ calls' = calls
        /\ starved' = TRUE

\* What the caller's clock and phase show of a DoStarvedUpdateEstimate
\* step: among the steps of NextStarved, the ones that set starved and
\* advance now are exactly the starved owner's calls of UpdateEstimate.
StarvedTick(in) ==
    \E now_ms \in {now + d : d \in in.step_ms \ {0}} :
        /\ last_packet_report_ms_ # -1
        /\ now_ms <= MaxStarvedMs
        /\ now' = now_ms
        /\ starved' = TRUE

\* The calls of an owner that may come to be starved of feedback.
NextStarved(in) ==
    \/ ~starved /\ Next(in)
    \/ DoStarvedUpdateEstimate(in)

\* The control loop at the scenarios' bitrates.
Spec == Init /\ [][Next(LoopInputs)]_vars

\* The bounds and the hints.
SpecCap == Init /\ [][Next(CapInputs)]_vars

\* The feedback timeout, with the experiment off and on.
SpecTimeout == InitTimeout /\ [][Next(TimeoutInputs)]_vars

\* The receiver blocks and the UMA statistics.
SpecUma == Init /\ [][Next(UmaInputs)]_vars

\* The loss accumulators, with the feedback timeout off and on.
SpecLoss == InitTimeout /\ [][Next(LossInputs)]_vars

\* The send bitrate set while the loss-based control increases.
SpecSend == Init /\ [][Next(SendInputs)]_vars

\* The loss-based increase over the window of min_bitrate_history_.
SpecIncrease == Init /\ [][Next(IncreaseInputs)]_vars

\* The loss-based updates logged and left unlogged.
SpecLog == Init /\ [][Next(LogInputs)]_vars

\* The loss-based increase while the floor is raised and lowered.
SpecFloor == Init /\ [][Next(FloorInputs)]_vars

\* The owner starved of feedback that keeps calling UpdateEstimate, with
\* the feedback timeout off and on: as long as the call is possible it is
\* eventually made.
SpecStarved ==
    /\ InitTimeout
    /\ [][NextStarved(StarvedInputs)]_vars
    /\ WF_<<now, starved>>(StarvedTick(StarvedInputs))

\* ---------------------------------------------------------------- claims
\* The bitrates the capping is probed with: the members it compares with,
\* their neighbours, and values below, between and above them.
CapProbes ==
    LET members == {bitrate_, bwe_incoming_, delay_based_bitrate_bps_,
                    min_bitrate_configured_, max_bitrate_configured_}
    IN  {b \in members \cup {m - 1 : m \in members} \cup {m + 1 : m \in members}
                \cup {0, 130000, 2000000000} : b >= 0}

\* The least member of a non-empty set of numbers.
Least(S) == CHOOSE x \in S : \A y \in S : x <= y

\* C1: once the estimate has been set (bitrate_ is no longer the 0 of the
\* constructor), the bitrate CurrentEstimate returns lies between
\* min_bitrate_configured_ and max_bitrate_configured_.
C1_EstimateWithinConfiguredBounds ==
    bitrate_ # 0 =>
        /\ min_bitrate_configured_ <= CurrentEstimate.bitrate
        /\ CurrentEstimate.bitrate <= max_bitrate_configured_

\* C2: after every SetMinMaxBitrate(min, max) with min >= 0 and any max,
\* min_bitrate_configured_ <= max_bitrate_configured_.
C2_MinAtMostMaxAfterSetMinMax ==
    last_op = "SetMinMaxBitrate" =>
        min_bitrate_configured_ <= max_bitrate_configured_

\* C3: in every reachable state, CapBitrateToThresholds returns, for every
\* bitrate, a value between min_bitrate_configured_ and
\* max_bitrate_configured_.
C3_CapWithinConfiguredBounds ==
    \A b \in CapProbes :
        LET capped == CapBitrateToThresholds(Self, now, b).bitrate
        IN  /\ min_bitrate_configured_ <= capped
            /\ capped <= max_bitrate_configured_

\* C4: CapBitrateToThresholds(b) is the larger of min_bitrate_configured_
\* and the least of b, the REMB (when not 0), the delay-based estimate (when
\* not 0) and max_bitrate_configured_: a hint of 0 is ignored, and the floor
\* wins over a ceiling below it.
C4_CapIsFloorOfLeastCeiling ==
    \A s \in {Self}, probes \in {CapProbes} :
        \A b \in probes :
            CapBitrateToThresholds(s, now, b).bitrate =
                Max(min_bitrate_configured_,
                    Least({b, max_bitrate_configured_}
                          \cup {h \in {bwe_incoming_,
                                       delay_based_bitrate_bps_} : h > 0}))

\* C4's case: a REMB below the floor has capped the bitrate, which is the
\* floor, while the delay-based estimate is absent (0).
C4_Witness ==
    /\ last_op = "UpdateReceiverEstimate"
    /\ bwe_incoming_ > 0
    /\ bwe_incoming_ < min_bitrate_configured_
    /\ delay_based_bitrate_bps_ = 0
    /\ bitrate_ = min_bitrate_configured_

\* C5: capping a capped bitrate again, at the same or any later now_ms and
\* with the same hints and bounds, returns it unchanged.
C5_CapIdempotent ==
    \A s \in {Self}, probes \in {CapProbes} :
        \A b \in probes :
            \A once \in {CapBitrateToThresholds(s, now, b)} :
                \A later \in {0, kLowBitrateLogPeriodMs + 1} :
                    CapBitrateToThresholds(once.self, now + later,
                                           once.bitrate).bitrate
                        = once.bitrate

\* C5's case: UpdateEstimate has capped again a bitrate that
\* UpdateReceiverEstimate had capped to the floor (the REMB is below it),
\* after the warning of CapBitrateToThresholds was logged.
C5_Witness ==
    /\ last_op = "UpdateEstimate"
    /\ last_packet_report_ms_ = -1
    /\ bwe_incoming_ > 0
    /\ bwe_incoming_ < min_bitrate_configured_
    /\ bitrate_ = min_bitrate_configured_
    /\ last_low_bitrate_log_ms_ # -1

\* C6 as stated: in every reachable state, consecutive entries of
\* min_bitrate_history_ are strictly increasing both in time and in bitrate,
\* also when several calls carry the same now_ms.
C6_HistoryStrictlyIncreasingInTimeAndBitrate ==
    \A i \in 1..(Len(min_bitrate_history_) - 1) :
        /\ min_bitrate_history_[i].first < min_bitrate_history_[i + 1].first
        /\ min_bitrate_history_[i].second < min_bitrate_history_[i + 1].second

\* C6: in every reachable state, consecutive entries of
\* min_bitrate_history_ are strictly increasing in bitrate and nondecreasing
\* in time: calls with the same now_ms leave entries of equal time.
C6_HistoryIncreasingInBitrateNondecreasingInTime ==
    \A i \in 1..(Len(min_bitrate_history_) - 1) :
        /\ min_bitrate_history_[i].first <= min_bitrate_history_[i + 1].first
        /\ min_bitrate_history_[i].second < min_bitrate_history_[i + 1].second

\* C6's case: two calls with the same now_ms have each pushed an entry, the
\* second a higher bitrate.
C6_Witness ==
    /\ Len(min_bitrate_history_) >= 2
    /\ min_bitrate_history_[1].first = min_bitrate_history_[2].first
    /\ min_bitrate_history_[1].second < min_bitrate_history_[2].second

\* What the startup branch of UpdateEstimate leaves in bitrate_ when a hint
\* is above it: the floor, or the least of the ceiling and the hints there
\* are.
StartupTarget ==
    Max(min_bitrate_configured_,
        Least({max_bitrate_configured_}
              \cup {h \in {bwe_incoming_, delay_based_bitrate_bps_} : h > 0}))

\* C7 as stated: in the start phase with last_fraction_loss_ = 0,
\* UpdateEstimate raises bitrate_ to a REMB above it that is within the
\* configured bounds, whatever delay-based estimate was adopted before (the
\* second UpdateEstimate of the scenario gives 800000).
C7_StartupTickAdoptsRemb ==
    [][(/\ last_op' = "UpdateEstimate"
        /\ last_fraction_loss_ = 0
        /\ IsInStartPhase(Self, now')
        /\ bwe_incoming_ > bitrate_
        /\ min_bitrate_configured_ <= bwe_incoming_
        /\ bwe_incoming_ <= max_bitrate_configured_)
       => bitrate_' = bwe_incoming_]_vars

\* C7: in the start phase with last_fraction_loss_ = 0, an UpdateEstimate
\* that finds the REMB above bitrate_, and that either changes bitrate_ by
\* it or runs before any receiver block, leaves bitrate_ at the capped
\* REMB: the floor, or the least of the REMB, the delay-based estimate
\* (when not 0) and the ceiling.  A lower delay-based estimate adopted
\* earlier keeps the bitrate at it (the second UpdateEstimate of the
\* scenario gives 500000).
C7_StartupTickAdoptsCappedRemb ==
    [][(/\ last_op' = "UpdateEstimate"
        /\ last_fraction_loss_ = 0
        /\ IsInStartPhase(Self, now')
        /\ bwe_incoming_ > bitrate_
        /\ \/ last_packet_report_ms_ = -1
           \/ StartupTarget # bitrate_)
       => bitrate_' = StartupTarget]_vars

\* C7's case: the scenario has run (SetBitrates(100000, 10000, 2000000),
\* UpdateDelayBasedEstimate(0, 500000), UpdateEstimate(0),
\* UpdateReceiverEstimate(500, 800000), UpdateEstimate(500)) and the
\* bitrate is the delay-based estimate, under the REMB.
C7_Witness ==
    /\ calls = 5
    /\ last_op = "UpdateEstimate"
    /\ now = 500
    /\ first_report_time_ms_ = -1
    /\ min_bitrate_configured_ = 10000
    /\ max_bitrate_configured_ = 2000000
    /\ bwe_incoming_ = 800000
    /\ delay_based_bitrate_bps_ = 500000
    /\ bitrate_ = 500000

\* The calls that bring or act on a hint.
HintOps == {"UpdateReceiverEstimate", "UpdateDelayBasedEstimate",
            "UpdateEstimate"}

\* C8 as stated: in the start phase with last_fraction_loss_ = 0, bitrate_
\* after UpdateReceiverEstimate, UpdateDelayBasedEstimate or the following
\* UpdateEstimate is never lower than before the call.
C8_StartupHintsOnlyRaise ==
    [][(/\ last_op' \in HintOps
        /\ last_fraction_loss_ = 0
        /\ IsInStartPhase(Self, now'))
       => bitrate_' >= bitrate_]_vars

\* C8: in the start phase with last_fraction_loss_ = 0, bitrate_ after
\* UpdateReceiverEstimate, after UpdateDelayBasedEstimate, and after an
\* UpdateEstimate that adopts a hint or runs before any receiver block, is
\* never lower than its value before the call capped to the thresholds in
\* force after the call: a hint lowers the bitrate only by capping it.
C8_StartupHintsLowerOnlyByCapping ==
    [][(/\ last_op' \in HintOps
        /\ last_fraction_loss_ = 0
        /\ IsInStartPhase(Self, now')
        /\ \/ last_op' # "UpdateEstimate"
           \/ last_packet_report_ms_ = -1
           \/ StartupTrust(Self, now').bitrate_ # bitrate_)
       => bitrate_' >=
              CapBitrateToThresholds(
                  [Self EXCEPT
                      !.bwe_incoming_ = bwe_incoming_',
                      !.delay_based_bitrate_bps_ = delay_based_bitrate_bps_'],
                  now', bitrate_).bitrate]_vars

\* C8's case: in the start phase without loss, a REMB below the bitrate
\* has capped it to the floor, and a delay-based estimate above it has
\* been adopted by UpdateEstimate after a receiver block.
C8_Witness ==
    /\ last_op = "UpdateEstimate"
    /\ last_fraction_loss_ = 0
    /\ last_packet_report_ms_ # -1
    /\ IsInStartPhase(Self, now)
    /\ bwe_incoming_ > 0
    /\ bwe_incoming_ < min_bitrate_configured_
    /\ delay_based_bitrate_bps_ > min_bitrate_configured_
    /\ bitrate_ = min_bitrate_configured_
    /\ min_bitrate_history_ = <<[first |-> now, second |-> bitrate_]>>

\* C9 as stated: while last_packet_report_ms_ = -1, every UpdateEstimate
\* leaves bitrate_ equal to CapBitrateToThresholds of its value before the
\* call.
C9_NoFeedbackTickOnlyCaps ==
    [][(last_op' = "UpdateEstimate" /\ last_packet_report_ms_ = -1)
       => bitrate_' = CapBitrateToThresholds(Self, now', bitrate_).bitrate]_vars

\* C9: while last_packet_report_ms_ = -1, an UpdateEstimate in the start
\* phase that finds a hint above bitrate_ leaves the capped hint in it, any
\* other UpdateEstimate leaves CapBitrateToThresholds of its value before
\* the call, and an UpdateEstimate that directly follows an UpdateEstimate
\* leaves bitrate_ unchanged.
C9_NoFeedbackTickAdoptsOrCaps ==
    [][(last_op' = "UpdateEstimate" /\ last_packet_report_ms_ = -1)
       => /\ bitrate_' =
                 IF /\ last_fraction_loss_ = 0
                    /\ IsInStartPhase(Self, now')
                    /\ \/ bwe_incoming_ > bitrate_
                       \/ delay_based_bitrate_bps_ > bitrate_
                 THEN StartupTarget
                 ELSE CapBitrateToThresholds(Self, now', bitrate_).bitrate
          /\ last_op = "UpdateEstimate" => bitrate_' = bitrate_]_vars

\* C9's case: before any receiver block, UpdateEstimate has left the
\* bitrate at the delay-based estimate it adopted, under a REMB above it.
C9_Witness ==
    /\ last_op = "UpdateEstimate"
    /\ last_packet_report_ms_ = -1
    /\ delay_based_bitrate_bps_ > 0
    /\ bwe_incoming_ > delay_based_bitrate_bps_
    /\ bitrate_ = delay_based_bitrate_bps_
    /\ min_bitrate_history_ = <<[first |-> now, second |-> bitrate_]>>

\* The gate of the decrease, for the loss fraction, the RTT and the latch
\* the tick at now_ms finds.
DecreaseGateOpen(has_decreased, now_ms, rtt) ==
    /\ ~has_decreased
    /\ now_ms - time_last_decrease_ms_ >= kBweDecreaseIntervalMs + rtt

\* C10: on a tick with fresh feedback, bitrate_ above bitrate_threshold_bps_
\* and a loss above high_loss_threshold_ (the tick of UpdateEstimate, and
\* the tick of an UpdateReceiverBlock that has computed a loss fraction and
\* cleared the latch), bitrate_ becomes bitrate_ * (512 - loss) / 512
\* (capped) only if has_decreased_since_last_fraction_loss_ is false and
\* now_ms - time_last_decrease_ms_ >= 300 + last_round_trip_time_ms_, and
\* the latch and the time of the decrease are then set; otherwise the tick
\* only caps bitrate_ and leaves the time of the last decrease.  No other
\* call changes time_last_decrease_ms_.
C10_DecreaseGate ==
    [][/\ (/\ last_op' = "UpdateEstimate"
           /\ last_packet_report_ms_ # -1
           /\ 10 * (now' - last_packet_report_ms_) < 12 * kFeedbackIntervalMs
           /\ bitrate_ > bitrate_threshold_bps_
           /\ ~LossAtMost(last_fraction_loss_, high_loss_threshold_))
          => IF DecreaseGateOpen(has_decreased_since_last_fraction_loss_,
                                 now', last_round_trip_time_ms_)
             THEN /\ bitrate_' =
                         CapBitrateToThresholds(
                             Self, now',
                             (bitrate_ * (512 - last_fraction_loss_))
                                 \div 512).bitrate
                  /\ time_last_decrease_ms_' = now'
                  /\ has_decreased_since_last_fraction_loss_'
             ELSE /\ bitrate_' =
                         CapBitrateToThresholds(Self, now', bitrate_).bitrate
                  /\ time_last_decrease_ms_' = time_last_decrease_ms_
                  /\ has_decreased_since_last_fraction_loss_' =
                         has_decreased_since_last_fraction_loss_
       /\ (/\ last_op' = "UpdateReceiverBlock"
           /\ last_packet_report_ms_' = now'
           /\ expected_packets_since_last_loss_update_' = 0
           /\ bitrate_ > bitrate_threshold_bps_
           /\ ~LossAtMost(last_fraction_loss_', high_loss_threshold_))
          => IF DecreaseGateOpen(FALSE, now', last_round_trip_time_ms_')
             THEN /\ bitrate_' =
                         CapBitrateToThresholds(
                             Self, now',
                             (bitrate_ * (512 - last_fraction_loss_'))
                                 \div 512).bitrate
                  /\ time_last_decrease_ms_' = now'
                  /\ has_decreased_since_last_fraction_loss_'
             ELSE /\ bitrate_' =
                         CapBitrateToThresholds(Self, now', bitrate_).bitrate
                  /\ time_last_decrease_ms_' = time_last_decrease_ms_
                  /\ ~has_decreased_since_last_fraction_loss_'
       /\ time_last_decrease_ms_' # time_last_decrease_ms_
          => /\ last_op' \in {"UpdateEstimate", "UpdateReceiverBlock"}
             /\ time_last_decrease_ms_' = now'
             /\ has_decreased_since_last_fraction_loss_'
             /\ ~LossAtMost(last_fraction_loss_', high_loss_threshold_)
             /\ bitrate_' <= bitrate_]_vars

\* C10's case: a block with a loss of 64/256 has decreased the bitrate
\* from 100000 to 87500, and a second such block less than 300 ms + RTT
\* later has cleared the latch and decreased nothing.
C10_Witness ==
    /\ last_op = "UpdateReceiverBlock"
    /\ last_packet_report_ms_ = now
    /\ last_fraction_loss_ = 64
    /\ ~has_decreased_since_last_fraction_loss_
    /\ time_last_decrease_ms_ > 0
    /\ now - time_last_decrease_ms_
           < kBweDecreaseIntervalMs + last_round_trip_time_ms_
    /\ bitrate_ = 87500

\* The feedback of a tick at now_ms has timed out: a loss fraction was
\* reported (the tick reaches the freshness test), not within 1.2 *
\* kFeedbackIntervalMs, and no feedback came for more than
\* kFeedbackTimeoutIntervals * kFeedbackIntervalMs.
FeedbackTimedOut(now_ms) ==
    /\ last_packet_report_ms_ # -1
    /\ now_ms - last_packet_report_ms_ >= 1800
    /\ now_ms - last_feedback_ms_ > 4500

C12_EveryBlockUpdatesUmaStats ==
    \A now_ms \in NowInputs(UmaInputs),
       fraction_loss \in UmaInputs.fraction_loss,
       rtt \in UmaInputs.rtt,
       number_of_packets \in UmaInputs.number_of_packets :
        \A after \in {UpdateReceiverBlock(Self, fraction_loss, rtt,
                                         number_of_packets, now_ms)} :
            IF IsInStartPhase(after, now_ms)
            THEN after.initially_lost_packets_ =
                     initially_lost_packets_
                         + ((fraction_loss * number_of_packets) \div 256)
            ELSE /\ uma_update_state_ = kNoUpdate
                    => after.uma_update_state_ = kFirstDone
                 /\ (/\ uma_update_state_ = kFirstDone
                     /\ now_ms - after.first_report_time_ms_
                            >= kBweConverganceTimeMs)
                    => after.uma_update_state_ = kDone

\* C13: after any UpdateReceiverBlock that produces a new
\* last_fraction_loss_ (number_of_packets > 0 and at least kLimitNumPackets
\* expected packets accumulated), lost_packets_since_last_loss_update_Q8_
\* and expected_packets_since_last_loss_update_ are both 0.
C13_AccumulatorsZeroAfterNewLossFraction ==
    \A now_ms \in NowInputs(UmaInputs),
       fraction_loss \in UmaInputs.fraction_loss,
       rtt \in UmaInputs.rtt,
       number_of_packets \in UmaInputs.number_of_packets :
        (/\ number_of_packets > 0
         /\ expected_packets_since_last_loss_update_ + number_of_packets
                >= kLimitNumPackets)
        => \A after \in {UpdateReceiverBlock(Self, fraction_loss, rtt,
                                            number_of_packets, now_ms)} :
               /\ after.last_packet_report_ms_ = now_ms
               /\ after.lost_packets_since_last_loss_update_Q8_ = 0
               /\ after.expected_packets_since_last_loss_update_ = 0

\* C13's case: a block has brought the accumulated packets to
\* kLimitNumPackets or more and its UpdateEstimate has logged the new loss
\* fraction; the accumulators are 0.
C13_Witness ==
    /\ last_op = "UpdateReceiverBlock"
    /\ last_packet_report_ms_ = now
    /\ last_fraction_loss_ = 64
    /\ event_log_ # <<>>
    /\ lost_packets_since_last_loss_update_Q8_ = 0
    /\ expected_packets_since_last_loss_update_ = 0

\* The greatest member of a non-empty set of numbers.
Greatest(S) == CHOOSE x \in S : \A y \in S : x >= y

\* C14: whenever UpdateReceiverBlock produces a new loss fraction,
\* last_fraction_loss_ is the integer quotient of the accumulated Q8 loss
\* (the sum of fraction_loss * number_of_packets over the blocks accumulated
\* since the last reset) by the accumulated packets, which the 8 bits of
\* last_fraction_loss_ do not truncate: it is at most the largest
\* fraction_loss accumulated, and last_fraction_loss_ is in 0..255 in every
\* reachable state.
C14_LossFractionIsQuotient ==
    /\ last_fraction_loss_ \in 0..255
    /\ \A now_ms \in NowInputs(LossInputs),
          fraction_loss \in LossInputs.fraction_loss,
          rtt \in LossInputs.rtt,
          number_of_packets \in LossInputs.number_of_packets :
           (/\ number_of_packets > 0
            /\ expected_packets_since_last_loss_update_ + number_of_packets
                   >= kLimitNumPackets)
           => \A after \in {UpdateReceiverBlock(Self, fraction_loss, rtt,
                                               number_of_packets, now_ms)} :
                  /\ after.last_fraction_loss_ =
                         (lost_packets_since_last_loss_update_Q8_
                              + fraction_loss * number_of_packets)
                         \div (expected_packets_since_last_loss_update_
                                   + number_of_packets)
                  /\ after.last_fraction_loss_ <=
                         Greatest(fraction_loss_since_last_loss_update
                                      \cup {fraction_loss})

\* C14's case: blocks with different losses were accumulated and the last
\* of them produced a loss fraction that is none of the reported ones.
C14_Witness ==
    /\ last_op = "UpdateReceiverBlock"
    /\ last_packet_report_ms_ = now
    /\ event_log_ # <<>>
    /\ expected_packets_since_last_loss_update_ = 0
    /\ last_fraction_loss_ \notin LossInputs.fraction_loss

\* The histograms of the 2-second summaries.
StartupSummaries ==
    {"WebRTC.BWE.InitiallyLostPackets", "WebRTC.BWE.InitialRtt",
     "WebRTC.BWE.InitialBandwidthEstimate"}

\* The histograms the last call recorded a sample of.
Emitted == {h.name : h \in histograms}

\* C15: uma_update_state_ only moves from kNoUpdate to kFirstDone and from
\* kFirstDone to kDone, never back and never from kNoUpdate to kDone.  The
\* 2-second summaries are recorded by the call that moves it to kFirstDone
\* and by no other, InitialVsConvergedDiff by the call that moves it to
\* kDone and by no other, which happens only when now_ms -
\* first_report_time_ms_ >= kBweConverganceTimeMs: each is recorded at most
\* once, the latter after the former.
C15_UmaStateMovesForward ==
    [][/\ uma_update_state_' # uma_update_state_
          => \/ /\ uma_update_state_ = kNoUpdate
                /\ uma_update_state_' = kFirstDone
             \/ /\ uma_update_state_ = kFirstDone
                /\ uma_update_state_' = kDone
                /\ now' - first_report_time_ms_' >= kBweConverganceTimeMs
       /\ IF uma_update_state_ = kNoUpdate /\ uma_update_state_' = kFirstDone
          THEN /\ StartupSummaries \subseteq Emitted'
               /\ "WebRTC.BWE.InitialVsConvergedDiff" \notin Emitted'
          ELSE StartupSummaries \cap Emitted' = {}
       /\ "WebRTC.BWE.InitialVsConvergedDiff" \in Emitted'
          <=> (uma_update_state_ = kFirstDone /\ uma_update_state_' = kDone)
      ]_vars

\* C15's case: the state went through kFirstDone and a block
\* kBweConverganceTimeMs after the first report has taken it to kDone and
\* recorded InitialVsConvergedDiff.
C15_Witness ==
    /\ last_op = "UpdateReceiverBlock"
    /\ uma_update_state_ = kDone
    /\ now - first_report_time_ms_ >= kBweConverganceTimeMs
    /\ Emitted = {"WebRTC.BWE.InitialVsConvergedDiff"}

\* The tick at now_ms reaches the loss-based increase: it adopts no hint in
\* the startup branch, the feedback is fresh, and the bitrate is below the
\* threshold or the loss at most low_loss_threshold_.
IncreaseTick(now_ms) ==
    /\ ~(/\ last_fraction_loss_ = 0
         /\ IsInStartPhase(Self, now_ms)
         /\ StartupTrust(Self, now_ms).bitrate_ # bitrate_)
    /\ last_packet_report_ms_ # -1
    /\ now_ms - last_packet_report_ms_ < 1800
    /\ \/ bitrate_ < bitrate_threshold_bps_
       \/ LossAtMost(last_fraction_loss_, low_loss_threshold_)

\* C16: SetSendBitrate(b) with b > 0 leaves bitrate_ = b and
\* min_bitrate_history_ empty, and the low-loss increase tick that directly
\* follows it leaves bitrate_ at the capped round(b * 1.08) + 1000,
\* whatever lower bitrates the history held before the call.
C16_SetSendBitrateClearsHistory ==
    [][/\ \A b \in SendInputs.send_bitrate :
              \A after \in {SetSendBitrate(Self, b)} :
                  /\ after.bitrate_ = b
                  /\ after.min_bitrate_history_ = <<>>
       /\ last_op' = "SetSendBitrate"
          => /\ bitrate_' \in SendInputs.send_bitrate
             /\ min_bitrate_history_' = <<>>
       /\ (/\ last_op = "SetSendBitrate"
           /\ last_op' = "UpdateEstimate"
           /\ IncreaseTick(now'))
          => bitrate_' =
                 CapBitrateToThresholds(
                     Self, now',
                     ((108 * bitrate_ + 50) \div 100) + 1000).bitrate
      ]_vars

\* C16's case: with 100 kbps in the history, SetSendBitrate(300000) was
\* followed by an increase tick, which left round(300000 * 1.08) + 1000 and
\* not round(100000 * 1.08) + 1000.
C16_Witness ==
    /\ last_op = "UpdateEstimate"
    /\ last_packet_report_ms_ # -1
    /\ calls = 4
    /\ bwe_incoming_ = 0
    /\ delay_based_bitrate_bps_ = 0
    /\ bitrate_ = 325000
    /\ min_bitrate_history_ = <<[first |-> now, second |-> 300000]>>

\* round(1.08 * B) + 1000
IncreaseFrom(B) == ((108 * B + 50) \div 100) + 1000

\* The bitrate of the front entry of min_bitrate_history_ after
\* UpdateMinHistory(now_ms).
FrontAfterUpdateMinHistory(now_ms) ==
    UpdateMinHistory(Self, now_ms).min_bitrate_history_[1].second

SamplesInWindow == {x.second : x \in recorded_samples}

SamplesSinceClear == {x.second : x \in {y \in recorded_samples : ~y.forgotten}}

\* UpdateEstimate(now_ms) takes the branch that resets min_bitrate_history_
\* and returns before UpdateMinHistory.
StartupAdopts(now_ms) ==
    /\ last_fraction_loss_ = 0
    /\ IsInStartPhase(Self, now_ms)
    /\ StartupTrust(Self, now_ms).bitrate_ # bitrate_

\* C18 as stated: immediately after every UpdateMinHistory the front entry
\* of min_bitrate_history_ holds the smallest bitrate among all the samples
\* recorded in the last kBweIncreaseIntervalMs, as a reference model that
\* keeps every sample has it.
C18_FrontIsMinimumOfEverySample ==
    [][(/\ last_op' = "UpdateEstimate"
        /\ ~StartupAdopts(now'))
       => /\ min_bitrate_history_' # <<>>
          /\ min_bitrate_history_'[1].second = Least(SamplesInWindow')]_vars

\* C18, amended: the front entry of min_bitrate_history_ holds the smallest
\* bitrate among the samples of the last kBweIncreaseIntervalMs that were
\* recorded since the history was last cleared by SetSendBitrate or reset by
\* the startup adoption of UpdateEstimate (whose entry counts as a sample);
\* every entry of the deque is such a sample, and the deque is empty exactly
\* when there is none.
C18_FrontIsMinimumSinceClear ==
    /\ (min_bitrate_history_ = <<>>) = (SamplesSinceClear = {})
    /\ \A i \in 1..Len(min_bitrate_history_) :
           [first |-> min_bitrate_history_[i].first,
            second |-> min_bitrate_history_[i].second,
            forgotten |-> FALSE] \in recorded_samples
    /\ min_bitrate_history_ # <<>>
           => min_bitrate_history_[1].second = Least(SamplesSinceClear)

\* C18's case: UpdateMinHistory has run, the front entry is older than the
\* newest one and lower than a later sample that is still in the window,
\* and a sample of the window was forgotten by a clear.
C18_Witness ==
    /\ last_op = "UpdateEstimate"
    /\ Len(min_bitrate_history_) >= 2
    /\ min_bitrate_history_[1].first < now
    /\ \E x \in recorded_samples : x.forgotten
    /\ Cardinality(SamplesSinceClear) >= 2

\* The members that every UpdateReceiverBlock may write before it decides
\* on a new loss fraction, and the members that UpdateUmaStats may write.
ReportMembers ==
    {"last_feedback_ms_", "first_report_time_ms_", "last_round_trip_time_ms_",
     "lost_packets_since_last_loss_update_Q8_",
     "expected_packets_since_last_loss_update_",
     "fraction_loss_since_last_loss_update"}

UmaMembers ==
    {"rampup_uma_stats_updated_", "initially_lost_packets_",
     "uma_update_state_", "bitrate_at_2_seconds_kbps_", "histograms"}

\* What every UpdateReceiverBlock does to the members of ReportMembers when
\* it produces no loss fraction.
ReportAccumulated(after, fraction_loss, rtt, number_of_packets, now_ms) ==
    /\ after.last_feedback_ms_ = now_ms
    /\ after.first_report_time_ms_ =
           (IF first_report_time_ms_ = -1 THEN now_ms
                                          ELSE first_report_time_ms_)
    /\ after.last_round_trip_time_ms_ = rtt
    /\ after.lost_packets_since_last_loss_update_Q8_ =
           lost_packets_since_last_loss_update_Q8_
               + fraction_loss * number_of_packets
    /\ after.expected_packets_since_last_loss_update_ =
           expected_packets_since_last_loss_update_ + number_of_packets

\* C19 as stated: an UpdateReceiverBlock that brings the accumulated
\* packets to fewer than kLimitNumPackets, or that has number_of_packets 0,
\* changes only last_feedback_ms_, first_report_time_ms_ (if unset),
\* last_round_trip_time_ms_ and the accumulators: no loss fraction, no
\* UpdateEstimate, and no other member written.
C19_ThinBlockChangesOnlyReportMembers ==
    \A now_ms \in NowInputs(UmaInputs),
       fraction_loss \in UmaInputs.fraction_loss,
       rtt \in UmaInputs.rtt,
       number_of_packets \in UmaInputs.number_of_packets :
        (\/ number_of_packets = 0
         \/ expected_packets_since_last_loss_update_ + number_of_packets
                < kLimitNumPackets)
        => \A s \in {Self},
              after \in {UpdateReceiverBlock(Self, fraction_loss, rtt,
                                             number_of_packets, now_ms)} :
               /\ ReportAccumulated(after, fraction_loss, rtt,
                                    number_of_packets, now_ms)
               /\ \A m \in (DOMAIN s) \ ReportMembers : after[m] = s[m]

\* C19, amended: such a block produces no loss fraction and runs no
\* UpdateEstimate; with number_of_packets > 0 it changes only the report
\* members, with number_of_packets 0 it leaves the accumulators as they are
\* and also runs UpdateUmaStats, which may write the ramp-up flags,
\* uma_update_state_ and bitrate_at_2_seconds_kbps_ and emit histograms.
\* A block that does produce a loss fraction has brought the accumulated
\* packets to kLimitNumPackets or more.
C19_ThinBlockProducesNoLossFraction ==
    \A now_ms \in NowInputs(UmaInputs),
       fraction_loss \in UmaInputs.fraction_loss,
       rtt \in UmaInputs.rtt,
       number_of_packets \in UmaInputs.number_of_packets :
        \A s \in {Self},
           after \in {UpdateReceiverBlock(Self, fraction_loss, rtt,
                                          number_of_packets, now_ms)} :
            IF \/ number_of_packets = 0
               \/ expected_packets_since_last_loss_update_ + number_of_packets
                      < kLimitNumPackets
            THEN /\ ReportAccumulated(after, fraction_loss, rtt,
                                      number_of_packets, now_ms)
                 /\ \A m \in (DOMAIN s) \ (ReportMembers \cup UmaMembers) :
                        after[m] = s[m]
                 /\ number_of_packets > 0
                        => \A m \in UmaMembers : after[m] = s[m]
                 /\ number_of_packets = 0
                        => after = UpdateUmaStats(
                               [s EXCEPT
                                   !.last_feedback_ms_ = now_ms,
                                   !.first_report_time_ms_ =
                                       IF @ = -1 THEN now_ms ELSE @,
                                   !.last_round_trip_time_ms_ = rtt],
                               now_ms, rtt, 0)
            ELSE /\ after.last_packet_report_ms_ = now_ms
                 /\ after.last_fraction_loss_ =
                        ((lost_packets_since_last_loss_update_Q8_
                             + fraction_loss * number_of_packets)
                         \div (expected_packets_since_last_loss_update_
                                  + number_of_packets)) % 256
                 /\ expected_packets_since_last_loss_update_
                        + number_of_packets >= kLimitNumPackets

\* C19's case: after an earlier loss fraction, a block of 10 packets has
\* been accumulated without a new one.
C19_Witness ==
    /\ last_op = "UpdateReceiverBlock"
    /\ last_feedback_ms_ = now
    /\ last_packet_report_ms_ \notin {-1, now}
    /\ expected_packets_since_last_loss_update_ = 10
    /\ lost_packets_since_last_loss_update_Q8_ = 640
    /\ event_log_ = <<>>
    /\ histograms = {}

\* UpdateEstimate(now_ms) entered in state s returns before its cap-and-log
\* step: it adopts a hint in the startup branch, or no receiver block has
\* produced a loss fraction yet.
ReturnsEarly(s, now_ms) ==
    \/ /\ s.last_fraction_loss_ = 0
       /\ IsInStartPhase(s, now_ms)
       /\ StartupTrust(s, now_ms).bitrate_ # s.bitrate_
    \/ s.last_packet_report_ms_ = -1

\* The estimator at the cap-and-log step of an UpdateEstimate(now_ms) that
\* was entered in state s and does not return early.
BeforeCapAndLog(s, now_ms) ==
    LET s2 == UpdateMinHistory(s, now_ms)
    IN  IF 10 * (now_ms - s.last_packet_report_ms_) < 12 * kFeedbackIntervalMs
        THEN LossBasedControl(s2, now_ms)
        ELSE IF /\ now_ms - s.last_feedback_ms_
                       > kFeedbackTimeoutIntervals * kFeedbackIntervalMs
                /\ \/ s.last_timeout_ms_ = -1
                   \/ now_ms - s.last_timeout_ms_ > kTimeoutIntervalMs
        THEN FeedbackTimeout(s2, now_ms)
        ELSE s2

\* The four conditions under which the cap-and-log step, reached in state
\* pre with the capped value capped, logs.
LogDue(pre, capped, now_ms) ==
    \/ capped # pre.bitrate_
    \/ pre.last_fraction_loss_ # pre.last_logged_fraction_loss_
    \/ pre.last_rtc_event_log_ms_ = -1
    \/ now_ms - pre.last_rtc_event_log_ms_ > kRtcEventLogPeriodMs

\* C20 for one UpdateEstimate(now_ms) entered in state s.
LogGated(s, now_ms) ==
    \A after \in {UpdateEstimate(s, now_ms)} :
        IF ReturnsEarly(s, now_ms)
        THEN /\ after.event_log_ = s.event_log_
             /\ after.last_logged_fraction_loss_ = s.last_logged_fraction_loss_
             /\ after.last_rtc_event_log_ms_ = s.last_rtc_event_log_ms_
        ELSE \A pre \in {BeforeCapAndLog(s, now_ms)} :
             \A capped \in {CapBitrateToThresholds(pre, now_ms,
                                                   pre.bitrate_).bitrate} :
                 /\ after.bitrate_ = capped
                 /\ IF LogDue(pre, capped, now_ms)
                    THEN /\ after.event_log_ =
                                Append(s.event_log_,
                                       [bitrate |-> capped,
                                        fraction_loss |->
                                            pre.last_fraction_loss_,
                                        expected_packets |->
                                            pre.expected_packets_since_last_loss_update_])
                         /\ after.last_logged_fraction_loss_ =
                                pre.last_fraction_loss_
                         /\ after.last_rtc_event_log_ms_ = now_ms
                    ELSE /\ after.event_log_ = s.event_log_
                         /\ after.last_logged_fraction_loss_ =
                                s.last_logged_fraction_loss_
                         /\ after.last_rtc_event_log_ms_ =
                                s.last_rtc_event_log_ms_

\* C20: an UpdateEstimate that reaches its cap-and-log step, called as a
\* tick or from UpdateReceiverBlock with a new loss fraction, logs
\* (capped bitrate, last_fraction_loss_,
\* expected_packets_since_last_loss_update_) exactly when the cap changed
\* the value, or last_fraction_loss_ differs from
\* last_logged_fraction_loss_, or last_rtc_event_log_ms_ is -1, or more than
\* kRtcEventLogPeriodMs have passed since last_rtc_event_log_ms_; when it
\* logs it sets both log members, in all cases bitrate_ ends as the capped
\* value, and an UpdateEstimate that returns early logs nothing.
C20_EventLogGating ==
    \A now_ms \in NowInputs(LogInputs) :
        /\ LogGated(Self, now_ms)
        /\ \A fraction_loss \in LogInputs.fraction_loss,
              rtt \in LogInputs.rtt,
              number_of_packets \in LogInputs.number_of_packets :
               (expected_packets_since_last_loss_update_ + number_of_packets
                    >= kLimitNumPackets)
               => LogGated(NewLossFraction(
                               AccumulateReport(Self, fraction_loss, rtt,
                                                number_of_packets, now_ms),
                               now_ms),
                           now_ms)

\* C20's case: a tick has logged an estimate whose loss fraction was logged
\* before and which the cap left as it was, a log made for the time passed.
C20_Witness ==
    /\ last_op = "UpdateEstimate"
    /\ last_rtc_event_log_ms_ = now
    /\ now > kRtcEventLogPeriodMs
    /\ Len(event_log_) = 1
    /\ event_log_[1].bitrate = bitrate_
    /\ event_log_[1].fraction_loss = last_logged_fraction_loss_
    /\ last_packet_report_ms_ < now - kRtcEventLogPeriodMs
    /\ bitrate_ > min_bitrate_configured_
    /\ bitrate_ < bwe_incoming_

\* No ceiling of CapBitrateToThresholds is below the bitrate: the REMB and
\* the delay-based estimate are absent (0) or at least bitrate_, and so is
\* max_bitrate_configured_.
NoCeilingBelowBitrate ==
    /\ bwe_incoming_ = 0 \/ bwe_incoming_ >= bitrate_
    /\ delay_based_bitrate_bps_ = 0 \/ delay_based_bitrate_bps_ >= bitrate_
    /\ max_bitrate_configured_ >= bitrate_

\* C21: an UpdateEstimate that takes the increase branch of the loss-based
\* control, with no ceiling below the bitrate it is entered with, never
\* leaves bitrate_ lower than it was on entry, also after SetMinMaxBitrate
\* has raised and lowered the floor within kBweIncreaseIntervalMs.
C21_IncreaseTickNeverLowers ==
    [][(/\ last_op' = "UpdateEstimate"
        /\ IncreaseTick(now')
        /\ NoCeilingBelowBitrate)
       => bitrate_' >= bitrate_]_vars

\* C22: with in_timeout_experiment_ set and a loss fraction produced, an
\* owner that from some point on calls nothing but UpdateEstimate, with
\* now_ms advancing, eventually has bitrate_ = min_bitrate_configured_, and
\* every later UpdateEstimate leaves it there.
C22_StarvedEstimateReachesFloor ==
    (starved /\ in_timeout_experiment_)
        ~> [](bitrate_ = min_bitrate_configured_)

\* C22's case: a starved owner whose estimate had adopted the REMB of
\* 800 kbps has been timed out down to the floor, and a further timeout
\* has left it there, well before MaxStarvedMs.
C22_Witness ==
    /\ starved
    /\ in_timeout_experiment_
    /\ bwe_incoming_ = 800000
    /\ delay_based_bitrate_bps_ = 0
    /\ expected_packets_since_last_loss_update_ = 0
    /\ last_timeout_ms_ = now
    /\ bitrate_ = min_bitrate_configured_
    /\ event_log_ # <<>>
    /\ event_log_[1].bitrate = min_bitrate_configured_
    /\ now + 5000 <= MaxStarvedMs

====
